---------------------------- MODULE Spec2Model ----------------------------
(***************************************************************************)
(* Model of webglee's draw batch (src/src/draw/batch.rs) and text font     *)
(* (src/src/draw/text/font.rs).                                            *)
(*                                                                         *)
(* Scalars (f32) are modelled by integers; the values used are small       *)
(* integers, which f32 represents exactly.  Element indices are u32 in the *)
(* source; the bounds below keep them far from 2^32, so no wrap-around is  *)
(* modelled.                                                               *)
(***************************************************************************)
EXTENDS Integers, Sequences, FiniteSets, TLC

VARIABLES
    \* ---- Batch<ColorVertex> (batch.rs:10-20) ----
    geometry_mode,   \* Batch::geometry_mode
    vertices,        \* Batch::vertices : Vec<f32>, flattened scalars
    elements,        \* Batch::elements : Vec<u32>
    buffers,         \* Batch::buffers  : the contents of the two GPU buffers and num_elements
    is_dirty,        \* Batch::is_dirty
    \* ---- observation of the batch's run ----
    ctor,            \* the constructor call that built the batch
    panicked,        \* an assert! of the batch failed: the program is over
    set_data_calls,  \* number of set_data calls received by each GPU buffer
    calls,           \* the Batch operations the client has called, in order
    \* ---- Font (font.rs:23-33) ----
    layout,          \* Font::layout : the glyph positions of the last layout run
    packer,          \* Font::packer : the Shelf Packer's allocation state
    cache,           \* Font::cache  : HashMap<GlyphRasterConfig, Glyph>
    bitmap_buffer,   \* Font::bitmap_buffer : the RGBA scratch bitmap
    text_batch,      \* the caller's TextBatch: the quads pushed into it, in order
    \* ---- observation of the font's run ----
    font_crashed,    \* the unwrap of a failed atlas insert panicked
    allocated,       \* the pixel rectangles the packer has handed out, in order
    insert_calls,    \* the packer's insert calls and their outcomes, in order
    rasterize_calls, \* the keys rasterize_indexed was called for, in order
    write_calls,     \* the arguments of the Font.write calls, in order
    returned,        \* what the last Font operation returned
    blend_mode,      \* the graphics context's blend mode
    blend_at_draw,   \* the blend mode in effect during the last underlying draw call
    font_calls       \* the Font operations the client has called, in order

batchVars == <<geometry_mode, vertices, elements, buffers, is_dirty,
               ctor, panicked, set_data_calls, calls>>

fontVars == <<layout, packer, cache, bitmap_buffer, text_batch, font_crashed, allocated,
              insert_calls, rasterize_calls, write_calls, returned,
              blend_mode, blend_at_draw, font_calls>>

vars == <<batchVars, fontVars>>

(***************************************************************************)
(* Bounds and inputs                                                       *)
(***************************************************************************)
\* Number of Batch operations a run calls after construction.
MaxOps == 4

Triangles == "Triangles"
Lines == "Lines"
GeometryMode == {Triangles, Lines}

WHITE == <<1, 1, 1, 1>>

\* Quad { corners: [Point2; 4], z }
UnitQuad == [corners |-> <<<<0, 0>>, <<1, 0>>, <<1, 1>>, <<0, 1>>>>, z |-> 0]
FarQuad == [corners |-> <<<<2, 2>>, <<3, 2>>, <<3, 3>>, <<2, 3>>>>, z |-> 5]
Quads == {UnitQuad, FarQuad}
Colors == {WHITE}

\* ColorVertex { world_pos: Point3, color }
ColorVertex(x, y, z, color) == [world_pos |-> <<x, y, z>>, color |-> color]
ClientVertices == {ColorVertex(0, 0, 0, WHITE), ColorVertex(7, 8, 9, <<1, 0, 0, 1>>)}
ClientElements == {0, 1}

(***************************************************************************)
(* Vertex layout                                                           *)
(***************************************************************************)
\* <ColorVertex as Vertex>::append: position, then colour, onto the flat array.
Vertex_append(vertex, out) == out \o vertex.world_pos \o vertex.color

\* Number of scalars one ColorVertex occupies.
Stride == Len(Vertex_append(ColorVertex(0, 0, 0, WHITE), <<>>))

(***************************************************************************)
(* Batch                                                                   *)
(***************************************************************************)
\* Buffers::new: two empty GPU buffers, num_elements 0.
Buffers_new == [vertices |-> <<>>, elements |-> <<>>, num_elements |-> 0]

\* Batch::new(ctx, geometry_mode)
Batch_new(mode) ==
    /\ geometry_mode = mode
    /\ vertices = <<>>
    /\ elements = <<>>
    /\ buffers = Buffers_new
    /\ is_dirty = FALSE

\* Batch::new_triangles
new_triangles == Batch_new(Triangles)

\* Batch::new_lines: the source passes GeometryMode::Triangles here.
new_lines == Batch_new(Triangles)

num_vertices == Len(vertices)

num_elements == Len(elements)

\* A clear that also empties the vertex array.
clear_all ==
    /\ elements' = <<>>
    /\ vertices' = <<>>
    /\ is_dirty' = TRUE
    /\ UNCHANGED <<geometry_mode, buffers, panicked, set_data_calls>>

\* A clear that also resets the Buffer Pair's element count.
clear_resets_count ==
    /\ elements' = <<>>
    /\ is_dirty' = TRUE
    /\ buffers' = [buffers EXCEPT !.num_elements = 0]
    /\ UNCHANGED <<geometry_mode, vertices, panicked, set_data_calls>>

\* Batch::clear: elements.clear() twice, then the dirty flag.
clear ==
    /\ elements' = <<>>
    /\ is_dirty' = TRUE
    /\ UNCHANGED <<geometry_mode, vertices, buffers, panicked, set_data_calls>>

\* A push_element that forgets the dirty flag.
push_element_keeps_clean(element) ==
    /\ elements' = Append(elements, element)
    /\ UNCHANGED <<geometry_mode, vertices, buffers, is_dirty, panicked, set_data_calls>>

push_element(element) ==
    /\ elements' = Append(elements, element)
    /\ is_dirty' = TRUE
    /\ UNCHANGED <<geometry_mode, vertices, buffers, panicked, set_data_calls>>

push_vertex(vertex) ==
    /\ vertices' = Vertex_append(vertex, vertices)
    /\ is_dirty' = TRUE
    /\ UNCHANGED <<geometry_mode, elements, buffers, panicked, set_data_calls>>

\* A flush that uploads whether or not the batch is dirty.
flush_always ==
    /\ buffers' = [vertices |-> vertices,
                   elements |-> elements,
                   num_elements |-> Len(elements)]
    /\ set_data_calls' = [vertices |-> set_data_calls.vertices + 1,
                          elements |-> set_data_calls.elements + 1]
    /\ is_dirty' = FALSE
    /\ UNCHANGED <<geometry_mode, vertices, elements, panicked>>

\* A flush that uploads the vertices and forgets the element buffer.
flush_no_elements ==
    /\ IF is_dirty
       THEN /\ buffers' = [buffers EXCEPT !.vertices = vertices,
                                          !.num_elements = Len(elements)]
            /\ set_data_calls' = [set_data_calls EXCEPT !.vertices = @ + 1]
            /\ is_dirty' = FALSE
       ELSE UNCHANGED <<buffers, set_data_calls, is_dirty>>
    /\ UNCHANGED <<geometry_mode, vertices, elements, panicked>>

flush ==
    /\ IF is_dirty
       THEN /\ buffers' = [vertices |-> vertices,
                           elements |-> elements,
                           num_elements |-> Len(elements)]
            /\ set_data_calls' = [vertices |-> set_data_calls.vertices + 1,
                                  elements |-> set_data_calls.elements + 1]
            /\ is_dirty' = FALSE
       ELSE UNCHANGED <<buffers, set_data_calls, is_dirty>>
    /\ UNCHANGED <<geometry_mode, vertices, elements, panicked>>

\* The vertex push_quad builds for one corner.
CornerVertex(quad, i, color) ==
    ColorVertex(quad.corners[i][1], quad.corners[i][2], quad.z, color)

\* The index push_quad numbers its six elements from.
first_idx == num_elements

\* The six elements of one quad.
QuadElements(first) ==
    <<first + 0, first + 1, first + 2, first + 2, first + 3, first + 0>>

\* A push_quad that checks the geometry mode after pushing its vertices.
push_quad_late_assert(quad, color) ==
    /\ vertices' =
         Vertex_append(CornerVertex(quad, 4, color),
           Vertex_append(CornerVertex(quad, 3, color),
             Vertex_append(CornerVertex(quad, 2, color),
               Vertex_append(CornerVertex(quad, 1, color), vertices))))
    /\ is_dirty' = TRUE
    /\ IF geometry_mode # Triangles
       THEN panicked' = TRUE /\ UNCHANGED elements
       ELSE elements' = elements \o QuadElements(first_idx) /\ UNCHANGED panicked
    /\ UNCHANGED <<geometry_mode, buffers, set_data_calls>>

\* Batch<ColorVertex>::push_quad
push_quad(quad, color) ==
    IF geometry_mode # Triangles
    THEN \* assert!(self.geometry_mode == GeometryMode::Triangles) panics
         /\ panicked' = TRUE
         /\ UNCHANGED <<geometry_mode, vertices, elements, buffers, is_dirty,
                        set_data_calls>>
    ELSE /\ vertices' =
              Vertex_append(CornerVertex(quad, 4, color),
                Vertex_append(CornerVertex(quad, 3, color),
                  Vertex_append(CornerVertex(quad, 2, color),
                    Vertex_append(CornerVertex(quad, 1, color), vertices))))
         /\ is_dirty' = TRUE
         /\ elements' = elements \o QuadElements(first_idx)
         /\ UNCHANGED <<geometry_mode, buffers, panicked, set_data_calls>>

(***************************************************************************)
(* The client of a Batch: construction, then at most MaxOps calls          *)
(***************************************************************************)
Call(name) ==
    /\ ~panicked
    /\ Len(calls) < MaxOps
    /\ calls' = Append(calls, name)
    /\ UNCHANGED <<ctor, fontVars>>

BatchInit ==
    /\ \/ ctor = [fn |-> "new_triangles", mode |-> Triangles] /\ new_triangles
       \/ ctor = [fn |-> "new_lines", mode |-> Lines] /\ new_lines
       \/ \E mode \in GeometryMode : ctor = [fn |-> "new", mode |-> mode] /\ Batch_new(mode)
    /\ panicked = FALSE
    /\ set_data_calls = [vertices |-> 0, elements |-> 0]
    /\ calls = <<>>

CallClear == Call("clear") /\ clear

CallPushElement == \E element \in ClientElements : Call("push_element") /\ push_element(element)

CallPushVertex == \E vertex \in ClientVertices : Call("push_vertex") /\ push_vertex(vertex)

CallFlush == Call("flush") /\ flush

CallPushQuad ==
    \E quad \in Quads, color \in Colors : Call("push_quad") /\ push_quad(quad, color)

BatchNext ==
    \/ CallClear
    \/ CallPushElement
    \/ CallPushVertex
    \/ CallFlush
    \/ CallPushQuad

(***************************************************************************)
(* Shelf Packer (draw/text/packer.rs is not among the sources: its insert  *)
(* follows the algorithm of the specification, section 4.2)                *)
(***************************************************************************)
ATLAS_WIDTH == 512
ATLAS_HEIGHT == 256

\* ShelfPacker::new(ctx, width, height): an empty atlas, no shelf started.
ShelfPacker_new(width, height) ==
    [width |-> width, height |-> height,
     shelf_y |-> 0, x_cursor |-> 0, shelf_height |-> 0]

Max(a, b) == IF a >= b THEN a ELSE b

\* The UV rectangle of a pixel rectangle: offsets divided by the atlas
\* dimensions, kept as numerator and denominator.
UvRect(p, x, y, w, h) ==
    [min |-> <<[num |-> x, den |-> p.width], [num |-> y, den |-> p.height]>>,
     max |-> <<[num |-> x + w, den |-> p.width], [num |-> y + h, den |-> p.height]>>]

\* ShelfPacker::insert(pixels, w, h): the outcome, the pixel rectangle
\* allocated and the packer afterwards.
ShelfPacker_insert(p, w, h) ==
    IF w > p.width
    THEN [ok |-> FALSE, packer |-> p]
    ELSE IF p.x_cursor + w <= p.width
    THEN \* fits in the remaining width of the current shelf
         [ok |-> TRUE,
          rect |-> [x |-> p.x_cursor, y |-> p.shelf_y, w |-> w, h |-> h],
          uv_rect |-> UvRect(p, p.x_cursor, p.shelf_y, w, h),
          packer |-> [p EXCEPT !.x_cursor = @ + w,
                               !.shelf_height = Max(@, h)]]
    ELSE \* start a new shelf below the current one
         LET y == p.shelf_y + p.shelf_height IN
         IF y + h > p.height
         THEN [ok |-> FALSE, packer |-> p]
         ELSE [ok |-> TRUE,
               rect |-> [x |-> 0, y |-> y, w |-> w, h |-> h],
               uv_rect |-> UvRect(p, 0, y, w, h),
               packer |-> [p EXCEPT !.shelf_y = y,
                                    !.x_cursor = w,
                                    !.shelf_height = h]]

(***************************************************************************)
(* Font: the rasterizer and layout engine (fontdue) as used by font.rs     *)
(***************************************************************************)
\* Pixel sizes the client writes text at.
Sizes == {128, 256}

\* The characters of the client's texts and their glyph indices in the font.
Chars == {"a", "b", " ", "_"}
GlyphIndex(ch) == CASE ch = "a" -> 1 [] ch = "b" -> 2 [] ch = " " -> 3 [] ch = "_" -> 4

\* The font's metrics of a glyph at a pixel size: "a" is wide and low, "b"
\* narrow and tall, the space has no area, "_" has a width and no height.
Metrics(glyph_index, px) ==
    CASE glyph_index = 1 -> [width |-> 2 * px, height |-> px \div 2, advance |-> 2 * px]
      [] glyph_index = 2 -> [width |-> px, height |-> 2 * px, advance |-> px]
      [] glyph_index = 3 -> [width |-> 0, height |-> 0, advance |-> px \div 2]
      [] glyph_index = 4 -> [width |-> px, height |-> 0, advance |-> px]

\* GlyphRasterConfig of a glyph laid out with TextStyle::new(text, size, 0).
RasterKey(glyph_index, px) == [glyph_index |-> glyph_index, px |-> px, font_index |-> 0]

RECURSIVE LayoutFrom(_, _, _, _)
\* The glyph positions of `text` from pen position (x, y): left to right on
\* one line (max_width: None), every character yielding one glyph.
LayoutFrom(text, px, x, y) ==
    IF text = <<>>
    THEN <<>>
    ELSE LET m == Metrics(GlyphIndex(Head(text)), px) IN
         <<[key |-> RasterKey(GlyphIndex(Head(text)), px),
            x |-> x, y |-> y, width |-> m.width, height |-> m.height]>>
         \o LayoutFrom(Tail(text), px, x + m.advance, y)

\* layout.reset(&settings); layout.append(&[&font], &TextStyle::new(text, size, 0));
\* layout.glyphs()
LayoutGlyphs(text, size, x, y) == LayoutFrom(text, size, x, y)

\* set_blend_mode(None): the context's default, no blending.
NoBlend == [some |-> FALSE]

\* Some(BlendMode { equation: Same(Add), function: Same { source: One, destination: One } })
AdditiveBlend == [some |-> TRUE, equation |-> "Add", source |-> "One", destination |-> "One"]

\* Font::from_bytes
FontInit ==
    /\ layout = <<>>
    /\ blend_mode = NoBlend
    /\ blend_at_draw = [drawn |-> FALSE]
    /\ font_calls = <<>>
    /\ packer = ShelfPacker_new(ATLAS_WIDTH, ATLAS_HEIGHT)
    /\ cache = <<>>
    /\ bitmap_buffer = [len |-> 0]
    /\ text_batch = <<>>
    /\ font_crashed = FALSE
    /\ allocated = <<>>
    /\ insert_calls = <<>>
    /\ rasterize_calls = <<>>
    /\ write_calls = <<>>
    /\ returned = [op |-> "from_bytes"]

\* The Font's and the caller's state as Font::write's loop carries it.
FontState ==
    [packer |-> packer, cache |-> cache, bitmap_buffer |-> bitmap_buffer,
     text_batch |-> text_batch, font_crashed |-> font_crashed,
     allocated |-> allocated, insert_calls |-> insert_calls,
     rasterize_calls |-> rasterize_calls, last_end_offset |-> <<0, 0>>]

\* An emptiness test that asks for a width of 0 and a height of 0 together.
IsEmptyGlyph_both(glyph_pos) == glyph_pos.width = 0 /\ glyph_pos.height = 0

\* if glyph_pos.width == 0 || glyph_pos.height == 0 { continue; }
IsEmptyGlyph(glyph_pos) == glyph_pos.width = 0 \/ glyph_pos.height = 0

\* The record of one insert call: its arguments, the packer before and after,
\* the outcome and, when it succeeded, the pixel rectangle allocated.
InsertCall(before, w, h, r) ==
    IF r.ok
    THEN [w |-> w, h |-> h, ok |-> TRUE, before |-> before, after |-> r.packer,
          rect |-> r.rect]
    ELSE [w |-> w, h |-> h, ok |-> FALSE, before |-> before, after |-> r.packer]

\* Font::alpha_to_rgba: four bytes for each byte of the alpha bitmap.
alpha_to_rgba(alpha_len) == [len |-> 4 * alpha_len]

\* A closure that falls back to an empty UV rectangle when the insert fails.
RasterizeAndInsert_default(st, glyph_pos, size) ==
    LET metrics == Metrics(glyph_pos.key.glyph_index, size)
        r == ShelfPacker_insert(st.packer, metrics.width, metrics.height)
    IN  [st EXCEPT
           !.rasterize_calls = Append(@, glyph_pos.key),
           !.bitmap_buffer = alpha_to_rgba(metrics.width * metrics.height),
           !.insert_calls = Append(@, InsertCall(st.packer, metrics.width,
                                                 metrics.height, r)),
           !.packer = r.packer,
           !.allocated = IF r.ok THEN Append(@, r.rect) ELSE @,
           !.cache = [k \in DOMAIN st.cache \cup {glyph_pos.key} |->
                         IF k = glyph_pos.key
                         THEN [uv_rect |-> IF r.ok THEN r.uv_rect
                                           ELSE UvRect(st.packer, 0, 0, 0, 0)]
                         ELSE st.cache[k]]]

\* The closure of or_insert_with: rasterize the glyph, expand it to RGBA,
\* insert it into the atlas and unwrap the outcome.
RasterizeAndInsert(st, glyph_pos, size) ==
    LET metrics == Metrics(glyph_pos.key.glyph_index, size)
        r == ShelfPacker_insert(st.packer, metrics.width, metrics.height)
        called == [st EXCEPT
                     !.rasterize_calls = Append(@, glyph_pos.key),
                     !.bitmap_buffer = alpha_to_rgba(metrics.width * metrics.height),
                     !.insert_calls = Append(@, InsertCall(st.packer, metrics.width,
                                                           metrics.height, r)),
                     !.packer = r.packer]
    IN  IF r.ok
        THEN [called EXCEPT
                !.allocated = Append(@, r.rect),
                !.cache = [k \in DOMAIN st.cache \cup {glyph_pos.key} |->
                              IF k = glyph_pos.key
                              THEN [uv_rect |-> r.uv_rect]
                              ELSE st.cache[k]]]
        ELSE [called EXCEPT !.font_crashed = TRUE]

\* A lookup that rasterizes and inserts whether or not the key is cached.
CacheEntry_always(st, glyph_pos, size) == RasterizeAndInsert(st, glyph_pos, size)

\* self.cache.entry(glyph_pos.key).or_insert_with(|| ...)
CacheEntry(st, glyph_pos, size) ==
    IF glyph_pos.key \in DOMAIN st.cache
    THEN st
    ELSE RasterizeAndInsert(st, glyph_pos, size)

\* width as f32 / 2.0; the widths and heights of Metrics are even.
Half(n) == n \div 2

\* A loop body that moves the returned offset on for empty glyphs too.
WriteGlyph_tracks_empty(st, glyph_pos, size, pos, color) ==
    LET tracked == [st EXCEPT !.last_end_offset =
                        <<glyph_pos.x + Half(glyph_pos.width) - pos[1],
                          glyph_pos.y + Half(glyph_pos.height) - pos[2]>>]
    IN  IF IsEmptyGlyph(glyph_pos)
        THEN tracked
        ELSE LET got == CacheEntry(tracked, glyph_pos, size) IN
             IF got.font_crashed
             THEN got
             ELSE [got EXCEPT
                     !.text_batch = Append(@, [center |-> <<glyph_pos.x + Half(glyph_pos.width),
                                                            glyph_pos.y + Half(glyph_pos.height)>>,
                                               size |-> <<glyph_pos.width, glyph_pos.height>>,
                                               z |-> pos[3],
                                               uv_rect |-> got.cache[glyph_pos.key].uv_rect,
                                               color |-> color,
                                               key |-> glyph_pos.key])]

\* One iteration of write's loop over the glyphs.
WriteGlyph(st, glyph_pos, size, pos, color) ==
    IF IsEmptyGlyph(glyph_pos)
    THEN st
    ELSE LET got == CacheEntry(st, glyph_pos, size) IN
         IF got.font_crashed
         THEN got
         ELSE LET rect_center == <<glyph_pos.x + Half(glyph_pos.width),
                                   glyph_pos.y + Half(glyph_pos.height)>>
                  rect_size == <<glyph_pos.width, glyph_pos.height>>
              IN  [got EXCEPT
                     !.text_batch = Append(@, [center |-> rect_center,
                                               size |-> rect_size,
                                               z |-> pos[3],
                                               uv_rect |-> got.cache[glyph_pos.key].uv_rect,
                                               color |-> color,
                                               key |-> glyph_pos.key]),
                     !.last_end_offset =
                         <<glyph_pos.x + Half(glyph_pos.width) - pos[1],
                           glyph_pos.y + Half(glyph_pos.height) - pos[2]>>]

RECURSIVE WriteLoop(_, _, _, _, _)
\* for &glyph_pos in self.layout.glyphs() { ... }, left by the panic of unwrap.
WriteLoop(st, glyphs, size, pos, color) ==
    IF glyphs = <<>> \/ st.font_crashed
    THEN st
    ELSE WriteLoop(WriteGlyph(st, Head(glyphs), size, pos, color),
                   Tail(glyphs), size, pos, color)

\* Font::write(size, pos, color, text, batch)
write(size, pos, color, text) ==
    LET glyphs == LayoutGlyphs(text, size, pos[1], pos[2])
        st == WriteLoop(FontState, glyphs, size, pos, color)
    IN  /\ layout' = glyphs
        /\ UNCHANGED <<blend_mode, blend_at_draw>>
        /\ packer' = st.packer
        /\ cache' = st.cache
        /\ bitmap_buffer' = st.bitmap_buffer
        /\ text_batch' = st.text_batch
        /\ font_crashed' = st.font_crashed
        /\ allocated' = st.allocated
        /\ insert_calls' = st.insert_calls
        /\ rasterize_calls' = st.rasterize_calls
        /\ returned' = IF st.font_crashed
                       THEN [op |-> "write", panic |-> TRUE]
                       ELSE [op |-> "write", panic |-> FALSE,
                             value |-> st.last_end_offset]

\* The extent text_size reports: that of the last glyph, zero without glyphs.
LastGlyphExtent(glyphs) ==
    IF glyphs = <<>>
    THEN <<0, 0>>
    ELSE LET glyph_pos == glyphs[Len(glyphs)] IN
         <<glyph_pos.x + glyph_pos.width, glyph_pos.y + glyph_pos.height>>

\* A text_size that also rasterizes the glyphs of the text into the cache.
text_size_warming(size, text) ==
    LET glyphs == LayoutGlyphs(text, size, 0, 0)
        st == WriteLoop(FontState, glyphs, size, <<0, 0, 0>>, WHITE)
    IN  /\ layout' = glyphs
        /\ returned' = [op |-> "text_size", value |-> LastGlyphExtent(glyphs)]
        /\ packer' = st.packer
        /\ cache' = st.cache
        /\ bitmap_buffer' = st.bitmap_buffer
        /\ allocated' = st.allocated
        /\ insert_calls' = st.insert_calls
        /\ rasterize_calls' = st.rasterize_calls
        /\ font_crashed' = st.font_crashed
        /\ UNCHANGED <<text_batch, blend_mode, blend_at_draw>>

\* Font::text_size(size, text)
text_size(size, text) ==
    LET glyphs == LayoutGlyphs(text, size, 0, 0) IN
    /\ layout' = glyphs
    /\ returned' = [op |-> "text_size", value |-> LastGlyphExtent(glyphs)]
    /\ UNCHANGED <<packer, cache, bitmap_buffer, text_batch, font_crashed, allocated,
                   insert_calls, rasterize_calls, blend_mode, blend_at_draw>>

\* Font::draw(ctx, transform, draw_unit); pass_ok is the outcome of the
\* underlying self.pass.draw(...), whose error `?` returns at once.
draw(pass_ok) ==
    LET set_before == AdditiveBlend IN
    /\ blend_at_draw' = set_before
    /\ blend_mode' = IF pass_ok THEN NoBlend ELSE set_before
    /\ returned' = [op |-> "draw", ok |-> pass_ok]
    /\ UNCHANGED <<layout, packer, cache, bitmap_buffer, text_batch, font_crashed,
                   allocated, insert_calls, rasterize_calls>>

\* Font::texture
texture ==
    /\ returned' = [op |-> "texture", value |-> "packer.texture"]
    /\ UNCHANGED <<layout, packer, cache, bitmap_buffer, text_batch, font_crashed,
                   allocated, insert_calls, rasterize_calls, blend_mode, blend_at_draw>>

(***************************************************************************)
(* The client of a Font: from_bytes, then at most MaxWrites calls of write *)
(***************************************************************************)
MaxWrites == 3

Texts == {<<>>, <<"a">>, <<"b">>, <<" ">>, <<"a", "a">>, <<"a", "b">>,
          <<"a", " ", "b">>, <<"b", " ">>, <<"_", "a">>}
Positions == {<<0, 0, 0>>}
TextColors == {WHITE}

\* A call of write with its arguments drawn from the given sets.
ClientWrite(sizes, positions, colors, texts) ==
    \E size \in sizes, pos \in positions, color \in colors, text \in texts :
        /\ ~font_crashed
        /\ Len(write_calls) < MaxWrites
        /\ write(size, pos, color, text)
        /\ write_calls' = Append(write_calls, [size |-> size, pos |-> pos,
                                               color |-> color, text |-> text])
        /\ font_calls' = Append(font_calls, [op |-> "write", size |-> size, pos |-> pos,
                                             color |-> color, text |-> text])
        /\ UNCHANGED batchVars

CallWrite == ClientWrite(Sizes, Positions, TextColors, Texts)

FontNext == CallWrite

(***************************************************************************)
(* The client of a Font's whole interface: at most MaxFontCalls calls of   *)
(* write, text_size, draw and texture in any order                         *)
(***************************************************************************)
MaxFontCalls == 3

ApiTexts == {<<>>, <<"a">>, <<" ">>, <<"b", " ">>, <<"a", " ", "b">>}
ApiPositions == {<<10, 20, 3>>}

\* One more call of the interface, none after a panic.
FontCall(record) ==
    /\ ~font_crashed
    /\ Len(font_calls) < MaxFontCalls
    /\ font_calls' = Append(font_calls, record)
    /\ UNCHANGED <<write_calls, batchVars>>

ApiWrite ==
    /\ Len(font_calls) < MaxFontCalls
    /\ ClientWrite(Sizes, ApiPositions, TextColors, ApiTexts)

ApiTextSize ==
    \E size \in Sizes, text \in ApiTexts :
        FontCall([op |-> "text_size", size |-> size, text |-> text]) /\ text_size(size, text)

ApiDraw ==
    \E pass_ok \in BOOLEAN :
        FontCall([op |-> "draw", pass_ok |-> pass_ok]) /\ draw(pass_ok)

ApiTexture == FontCall([op |-> "texture"]) /\ texture

FontApiNext ==
    \/ ApiWrite
    \/ ApiTextSize
    \/ ApiDraw
    \/ ApiTexture

(***************************************************************************)
(* The client of a Shelf Packer: at most MaxInserts calls of insert        *)
(***************************************************************************)
MaxInserts == 4

InsertWidths == {128, 256, 1024}
InsertHeights == {64, 256, 512}

CallInsert ==
    \E w \in InsertWidths, h \in InsertHeights :
        LET r == ShelfPacker_insert(packer, w, h) IN
        /\ Len(insert_calls) < MaxInserts
        /\ packer' = r.packer
        /\ insert_calls' = Append(insert_calls, InsertCall(packer, w, h, r))
        /\ allocated' = IF r.ok THEN Append(allocated, r.rect) ELSE allocated
        /\ returned' = IF r.ok
                       THEN [op |-> "insert", ok |-> TRUE, value |-> r.uv_rect]
                       ELSE [op |-> "insert", ok |-> FALSE]
        /\ UNCHANGED <<cache, bitmap_buffer, text_batch, font_crashed,
                       rasterize_calls, write_calls>>
        /\ UNCHANGED <<layout, blend_mode, blend_at_draw, font_calls>>
        /\ UNCHANGED batchVars

PackerNext == CallInsert

Init == BatchInit /\ FontInit

\* The clients of a Font and of a Shelf Packer leave the Batch as constructed.
FontClientInit == Init /\ ctor.fn = "new_triangles"

Next == BatchNext

\* A Batch and its client.
Spec == Init /\ [][Next]_vars

\* A Font and its client.
FontSpec == FontClientInit /\ [][FontNext]_vars

\* A Font and the client of its whole interface.
FontApiSpec == FontClientInit /\ [][FontApiNext]_vars

\* A Shelf Packer and its client.
PackerSpec == FontClientInit /\ [][PackerNext]_vars

(***************************************************************************)
(* Properties of Batch                                                     *)
(***************************************************************************)
\* The client's last call, "new" right after construction.
LastCall == IF calls = <<>> THEN "new" ELSE calls[Len(calls)]

\* This step is the client's call of `name`.
Stepped(name) == calls' = Append(calls, name)

\* The client has pushed raw vertices or elements itself.
rawPushed == \E i \in DOMAIN calls : calls[i] \in {"push_vertex", "push_element"}

\* Number of vertices held: len(vertices) / stride(V).
VertexCount == Len(vertices) \div Stride

\* The flattened scalars of a quad's four corners, in corner order.
QuadScalars(quad, color) ==
    Vertex_append(CornerVertex(quad, 4, color),
      Vertex_append(CornerVertex(quad, 3, color),
        Vertex_append(CornerVertex(quad, 2, color),
          Vertex_append(CornerVertex(quad, 1, color), <<>>))))

\* The CPU arrays differ from what the Buffer Pair holds.
Diverged == vertices # buffers.vertices \/ elements # buffers.elements

\* C1: a flush that directly follows a flush, or construction, calls set_data
\* on neither buffer and leaves the Buffer Pair as it was; any flush calls
\* set_data at most once per buffer, and only when the batch was dirty.
FlushIdempotent ==
    [][Stepped("flush") =>
        /\ (LastCall \in {"flush", "new"}) =>
              (set_data_calls' = set_data_calls /\ buffers' = buffers)
        /\ set_data_calls'.vertices - set_data_calls.vertices
              = (IF is_dirty THEN 1 ELSE 0)
        /\ set_data_calls'.elements - set_data_calls.elements
              = (IF is_dirty THEN 1 ELSE 0)]_vars

\* C1 witness: pushes, then two flushes in a row, one upload in total.
FlushTwiceReached ==
    /\ Len(calls) >= 3
    /\ calls[Len(calls)] = "flush"
    /\ calls[Len(calls) - 1] = "flush"
    /\ calls[Len(calls) - 2] = "push_quad"
    /\ set_data_calls = [vertices |-> 1, elements |-> 1]
    /\ buffers.num_elements > 0

\* C2: right after a flush of a dirty batch both GPU buffers hold the whole CPU
\* arrays, num_elements is the element count and the batch is clean; one
\* push_quad on an empty batch and a flush leave 4 vertices and the elements
\* 0,1,2,2,3,0 in the buffers.
FlushUploadsAll ==
    [][(Stepped("flush") /\ is_dirty) =>
        /\ buffers'.vertices = vertices'
        /\ buffers'.elements = elements'
        /\ buffers'.num_elements = Len(elements')
        /\ ~is_dirty'
        /\ vertices' = vertices /\ elements' = elements
        /\ (calls' = <<"push_quad", "flush">> =>
              /\ \E quad \in Quads, color \in Colors :
                    buffers'.vertices = QuadScalars(quad, color)
              /\ Len(buffers'.vertices) = 4 * Stride
              /\ buffers'.elements = <<0, 1, 2, 2, 3, 0>>)]_vars

\* C2 witness: one quad pushed on an empty batch and flushed.
QuadFlushedReached ==
    /\ calls = <<"push_quad", "flush">>
    /\ ~panicked
    /\ buffers.elements = <<0, 1, 2, 2, 3, 0>>
    /\ buffers.vertices = QuadScalars(UnitQuad, WHITE)
    /\ ~is_dirty

\* C3: every push_quad on a Triangles batch that is empty, holds quads or was
\* cleared appends the four corner vertices in corner order and the six indices
\* b,b+1,b+2,b+2,b+3,b, b being the vertex count before the call.
PushQuadTopology ==
    [][(Stepped("push_quad") /\ geometry_mode = Triangles /\ ~rawPushed) =>
        /\ \E quad \in Quads, color \in Colors :
              vertices' = vertices \o QuadScalars(quad, color)
        /\ elements' = elements \o QuadElements(VertexCount)]_vars

\* C4: without raw pushes by the client, every element is below the vertex count.
ElementsBelowVertexCount ==
    ~rawPushed => \A i \in DOMAIN elements : elements[i] < VertexCount

\* C5 as stated: dirty exactly when the CPU arrays differ from the Buffer Pair.
DirtyIffDiverged == is_dirty <=> Diverged

\* C5 as amended: whenever the CPU arrays differ from the Buffer Pair the batch
\* is dirty (a clean batch mirrors the Buffer Pair), and a new batch is clean.
DirtyWhenDiverged ==
    /\ Diverged => is_dirty
    /\ calls = <<>> => ~is_dirty
    /\ ~is_dirty => buffers.num_elements = Len(elements)

\* C5 witness: a batch that was flushed with contents and then diverged.
DivergedAfterFlushReached ==
    /\ Diverged
    /\ is_dirty
    /\ buffers.num_elements > 0
    /\ \E i \in DOMAIN calls : calls[i] = "flush"
    /\ LastCall = "push_element"

\* C10: clear empties the element array, keeps the vertex array, sets the
\* dirty flag and leaves the Buffer Pair alone.
ClearElementsOnly ==
    [][Stepped("clear") =>
        /\ elements' = <<>>
        /\ vertices' = vertices
        /\ is_dirty'
        /\ buffers' = buffers
        /\ set_data_calls' = set_data_calls]_vars

\* C10 witness: clear called on a batch whose quad had been flushed.
ClearAfterFlushReached ==
    /\ LastCall = "clear"
    /\ elements = <<>>
    /\ Len(vertices) = 4 * Stride
    /\ buffers.num_elements = 6
    /\ is_dirty

(***************************************************************************)
(* Properties of the Shelf Packer                                          *)
(***************************************************************************)
\* The pixel rectangle lies within [0,W) x [0,H) of the atlas.
InsideAtlas(r) ==
    /\ 0 <= r.x /\ r.x + r.w <= packer.width
    /\ 0 <= r.y /\ r.y + r.h <= packer.height

\* Two pixel rectangles share a pixel.
Overlap(r, q) ==
    /\ r.x < q.x + q.w /\ q.x < r.x + r.w
    /\ r.y < q.y + q.h /\ q.y < r.y + r.h

\* C6: the rectangles handed out by successful inserts lie within the atlas
\* and are pairwise disjoint.
AtlasDisjointContained ==
    \A i \in DOMAIN allocated :
        /\ InsideAtlas(allocated[i])
        /\ \A j \in DOMAIN allocated : i < j => ~Overlap(allocated[i], allocated[j])

\* C7: an insert wider than the atlas, or whose new shelf would pass the atlas
\* height, fails; a failed insert leaves the packer as it was; and every
\* successful insert after a failed one still lies within the atlas, disjoint
\* from the rectangles handed out before it.
AtlasOverflowSafe ==
    \A i \in DOMAIN insert_calls :
        LET c == insert_calls[i] IN
        /\ (\/ c.w > c.before.width
            \/ /\ c.before.x_cursor + c.w > c.before.width
               /\ c.before.shelf_y + c.before.shelf_height + c.h > c.before.height)
              => ~c.ok
        /\ ~c.ok => c.after = c.before
        /\ \A j \in DOMAIN insert_calls :
              (i < j /\ ~c.ok /\ insert_calls[j].ok) =>
                  /\ InsideAtlas(insert_calls[j].rect)
                  /\ \A k \in 1..(j - 1) :
                        insert_calls[k].ok =>
                            ~Overlap(insert_calls[k].rect, insert_calls[j].rect)

(***************************************************************************)
(* Properties of Font                                                      *)
(***************************************************************************)
\* This step is a call of Font.write that returned.
WriteReturned == Len(write_calls') = Len(write_calls) + 1 /\ ~font_crashed'

\* write draws the glyph: it has a width and a height.
HasArea(glyph_pos) == glyph_pos.width > 0 /\ glyph_pos.height > 0

\* C8: every key is rasterized at most once and each rasterization is followed
\* by one atlas insert; the cache holds exactly the keys whose insert
\* succeeded; every quad in the batch carries the UV rectangle cached for its
\* key; and a cache entry, once present, is never removed or changed.
GlyphCachedOnce ==
    /\ [](/\ \A i, j \in DOMAIN rasterize_calls :
                rasterize_calls[i] = rasterize_calls[j] => i = j
          /\ Len(insert_calls) = Len(rasterize_calls)
          /\ DOMAIN cache =
                {rasterize_calls[i] : i \in {n \in DOMAIN insert_calls : insert_calls[n].ok}}
          /\ \A i \in DOMAIN text_batch :
                /\ text_batch[i].key \in DOMAIN cache
                /\ text_batch[i].uv_rect = cache[text_batch[i].key].uv_rect
          /\ \A i, j \in DOMAIN text_batch :
                text_batch[i].key = text_batch[j].key =>
                    text_batch[i].uv_rect = text_batch[j].uv_rect)
    /\ [][\A k \in DOMAIN cache : k \in DOMAIN cache' /\ cache'[k] = cache[k]]_vars

\* C8 witness: the same glyph written by two write calls, rasterized once.
SameGlyphTwiceReached ==
    /\ ~font_crashed
    /\ Len(write_calls) = 2
    /\ write_calls[1].text = <<"a">>
    /\ write_calls[2] = write_calls[1]
    /\ Len(text_batch) = 2
    /\ text_batch[1].uv_rect = text_batch[2].uv_rect
    /\ Len(rasterize_calls) = 1
    /\ Len(insert_calls) = 1

\* C9: a write that returns appends one quad for each laid-out glyph that has
\* a width and a height, in layout order, and for a glyph with a width or a
\* height of 0 it rasterizes nothing and caches nothing.
WriteSkipsEmptyGlyphs ==
    [][WriteReturned =>
        LET c == write_calls'[Len(write_calls')]
            glyphs == LayoutGlyphs(c.text, c.size, c.pos[1], c.pos[2])
            drawn == SelectSeq(glyphs, HasArea)
        IN  /\ Len(text_batch') = Len(text_batch) + Len(drawn)
            /\ SubSeq(text_batch', 1, Len(text_batch)) = text_batch
            /\ \A i \in DOMAIN drawn :
                  LET q == text_batch'[Len(text_batch) + i] IN
                  /\ q.key = drawn[i].key
                  /\ q.size = <<drawn[i].width, drawn[i].height>>
                  /\ 2 * q.center[1] = 2 * drawn[i].x + drawn[i].width
                  /\ 2 * q.center[2] = 2 * drawn[i].y + drawn[i].height
            /\ \A i \in DOMAIN glyphs :
                  ~HasArea(glyphs[i]) =>
                      /\ glyphs[i].key \notin DOMAIN cache'
                      /\ \A n \in DOMAIN rasterize_calls' :
                            rasterize_calls'[n] # glyphs[i].key
            /\ Len(insert_calls') - Len(insert_calls)
                  = Len(rasterize_calls') - Len(rasterize_calls)
            /\ Len(rasterize_calls') - Len(rasterize_calls) <= Len(drawn)]_vars

\* C9 witness: "a b" written, two quads in the batch.
SpaceSkippedReached ==
    /\ ~font_crashed
    /\ Len(write_calls) = 1
    /\ write_calls[1].text = <<"a", " ", "b">>
    /\ Len(text_batch) = 2
    /\ text_batch[1].key.glyph_index = GlyphIndex("a")
    /\ text_batch[2].key.glyph_index = GlyphIndex("b")
    /\ DOMAIN cache = {text_batch[1].key, text_batch[2].key}

(***************************************************************************)
(* Further properties of Batch                                             *)
(***************************************************************************)
\* C11: num_vertices is the number of vertices pushed, len(vertices)/stride,
\* not the number of scalars: n after n push_vertex calls, and 4 (with
\* num_elements 6) after one push_quad on an empty batch.
NumVerticesCountsVertices ==
    /\ num_vertices * Stride = Len(vertices)
    /\ (\A i \in DOMAIN calls : calls[i] = "push_vertex") => num_vertices = Len(calls)
    /\ (calls = <<"push_quad">> /\ ~panicked) => (num_vertices = 4 /\ num_elements = 6)

\* C14: clear and the pushes leave both GPU buffers and buffers().num_elements
\* alone; only a flush of a dirty batch changes them, setting num_elements to
\* the element count of that moment (0 before the first upload); and on a
\* Triangles batch no order of operations panics.
BuffersMirrorLastFlush ==
    /\ []((set_data_calls.elements = 0 => buffers = Buffers_new)
          /\ (panicked => geometry_mode # Triangles))
    /\ [][/\ (\E name \in {"clear", "push_element", "push_vertex", "push_quad"} :
                 Stepped(name)) => buffers' = buffers
          /\ Stepped("flush") =>
                IF is_dirty
                THEN buffers'.num_elements = Len(elements)
                ELSE buffers' = buffers]_vars

\* C14 witness: after a flush with elements the client cleared and pushed
\* again, and the Buffer Pair still shows the flushed count.
StaleBuffersReached ==
    /\ Len(calls) = 4
    /\ calls[2] = "flush"
    /\ calls[3] = "clear"
    /\ calls[4] = "push_element"
    /\ buffers.num_elements = 6
    /\ Len(elements) = 1
    /\ Len(buffers.elements) = 6

\* C16: push_quad on a batch whose mode is not Triangles panics and leaves the
\* vertex array, the element array, the dirty flag and the Buffer Pair alone.
PushQuadRequiresTriangles ==
    [][(Stepped("push_quad") /\ geometry_mode # Triangles) =>
        /\ panicked'
        /\ vertices' = vertices
        /\ elements' = elements
        /\ is_dirty' = is_dirty
        /\ buffers' = buffers
        /\ set_data_calls' = set_data_calls]_vars

\* C16 witness: push_quad has panicked on a Lines batch that held a vertex.
PushQuadPanickedReached ==
    /\ panicked
    /\ geometry_mode = Lines
    /\ LastCall = "push_quad"
    /\ Len(vertices) = Stride
    /\ elements = <<>>

\* C17: the batch's geometry mode is the one its constructor names
\* (new_triangles: Triangles, new_lines: Lines, new(mode): mode), whatever
\* operations followed.
GeometryModeAsConstructed == geometry_mode = ctor.mode

(***************************************************************************)
(* Further properties of Font                                              *)
(***************************************************************************)
\* The client's last call of the Font's interface.
LastFontCall == font_calls[Len(font_calls)]

\* This step is a call of the Font operation `name`.
FontStepped(name) ==
    /\ Len(font_calls') = Len(font_calls) + 1
    /\ font_calls'[Len(font_calls')].op = name

\* Sequence s is a prefix of sequence t.
IsPrefix(s, t) == Len(s) <= Len(t) /\ SubSeq(t, 1, Len(s)) = s

\* C12: whenever draw has returned, with Ok or with the error of the
\* underlying draw call, the context's blend mode is the default again; the
\* underlying draw call ran under additive blending.
DrawRestoresBlend ==
    /\ blend_mode = NoBlend
    /\ (font_calls # <<>> /\ LastFontCall.op = "draw") => blend_at_draw = AdditiveBlend

\* C13 as stated: a write that returns reports the offset from pos to the
\* center of the final glyph of the layout (zero for no glyphs), the glyph
\* whose extent text_size reports.
WriteOffsetOfFinalGlyph ==
    (font_calls # <<>> /\ ~font_crashed) =>
        LET c == LastFontCall IN
        /\ c.op = "write" =>
              LET glyphs == LayoutGlyphs(c.text, c.size, c.pos[1], c.pos[2]) IN
              IF glyphs = <<>>
              THEN returned.value = <<0, 0>>
              ELSE LET g == glyphs[Len(glyphs)] IN
                   /\ 2 * returned.value[1] = 2 * (g.x - c.pos[1]) + g.width
                   /\ 2 * returned.value[2] = 2 * (g.y - c.pos[2]) + g.height
        /\ c.op = "text_size" =>
              LET glyphs == LayoutGlyphs(c.text, c.size, 0, 0) IN
              IF glyphs = <<>>
              THEN returned.value = <<0, 0>>
              ELSE LET g == glyphs[Len(glyphs)] IN
                   returned.value = <<g.x + g.width, g.y + g.height>>

\* C13 as amended: a write that returns reports the offset from pos to the
\* center of the last glyph that has a width and a height (zero when there is
\* none); text_size reports the extent of the final glyph of the layout (zero
\* for no glyphs).
WriteOffsetOfLastDrawnGlyph ==
    (font_calls # <<>> /\ ~font_crashed) =>
        LET c == LastFontCall IN
        /\ c.op = "write" =>
              LET drawn == SelectSeq(LayoutGlyphs(c.text, c.size, c.pos[1], c.pos[2]),
                                     HasArea)
              IN  IF drawn = <<>>
                  THEN returned.value = <<0, 0>>
                  ELSE LET g == drawn[Len(drawn)] IN
                       /\ 2 * returned.value[1] = 2 * (g.x - c.pos[1]) + g.width
                       /\ 2 * returned.value[2] = 2 * (g.y - c.pos[2]) + g.height
        /\ c.op = "text_size" =>
              LET glyphs == LayoutGlyphs(c.text, c.size, 0, 0) IN
              IF glyphs = <<>>
              THEN returned.value = <<0, 0>>
              ELSE LET g == glyphs[Len(glyphs)] IN
                   returned.value = <<g.x + g.width, g.y + g.height>>

\* C13 witness: "b " written at size 128, the offset returned being that of
\* the center of "b", not of the trailing space.
TrailingSpaceWrittenReached ==
    /\ font_calls # <<>>
    /\ ~font_crashed
    /\ LastFontCall.op = "write"
    /\ LastFontCall.text = <<"b", " ">>
    /\ LastFontCall.size = 128
    /\ returned.value = <<64, 128>>
    /\ layout[Len(layout)].key.glyph_index = GlyphIndex(" ")

\* C15: every step leaves the caller's batch a prefix of what it becomes, and
\* text_size, texture and draw leave the batch, the glyph cache and the
\* atlas's allocation state as they were.
OnlyWriteMutatesCacheAndAtlas ==
    [][/\ IsPrefix(text_batch, text_batch')
       /\ (FontStepped("text_size") \/ FontStepped("texture") \/ FontStepped("draw")) =>
             /\ cache' = cache
             /\ packer' = packer
             /\ allocated' = allocated
             /\ insert_calls' = insert_calls
             /\ rasterize_calls' = rasterize_calls
             /\ text_batch' = text_batch]_vars

\* C15 witness: a second write has appended to a batch that held quads, and a
\* text_size of a text with uncached glyphs followed, the cache as before.
TextSizeAfterWritesReached ==
    /\ Len(font_calls) = 3
    /\ font_calls[1].op = "write"
    /\ font_calls[2].op = "write"
    /\ font_calls[3].op = "text_size"
    /\ font_calls[3].text = <<"b", " ">>
    /\ Len(text_batch) = 2
    /\ Cardinality(DOMAIN cache) = 2
    /\ \A k \in DOMAIN cache : k.glyph_index = GlyphIndex("a")

\* Two UV rectangles share an area of the atlas (their denominators are the
\* atlas dimensions).
UvOverlap(r, q) ==
    /\ r.min[1].num < q.max[1].num /\ q.min[1].num < r.max[1].num
    /\ r.min[2].num < q.max[2].num /\ q.min[2].num < r.max[2].num

\* The insert calls that succeeded.
OkInserts == {n \in DOMAIN insert_calls : insert_calls[n].ok}

\* C18: the cache holds a key only if the atlas insert made for it succeeded,
\* it has as many entries as inserts succeeded, the UV rectangles of distinct
\* keys are disjoint, and the key whose insert failed (the panic) has no cache
\* entry and no quad.
CacheMatchesAtlas ==
    /\ \A k \in DOMAIN cache :
          \E n \in OkInserts :
              /\ rasterize_calls[n] = k
              /\ cache[k].uv_rect = UvRect(packer, insert_calls[n].rect.x,
                                           insert_calls[n].rect.y,
                                           insert_calls[n].w, insert_calls[n].h)
    /\ Cardinality(DOMAIN cache) = Cardinality(OkInserts)
    /\ \A k1, k2 \in DOMAIN cache :
          k1 # k2 => ~UvOverlap(cache[k1].uv_rect, cache[k2].uv_rect)
    /\ \A n \in DOMAIN insert_calls :
          ~insert_calls[n].ok =>
              /\ font_crashed
              /\ n = Len(insert_calls)
              /\ rasterize_calls[n] \notin DOMAIN cache
              /\ \A i \in DOMAIN text_batch : text_batch[i].key # rasterize_calls[n]
    /\ font_crashed => (insert_calls # <<>> /\ ~insert_calls[Len(insert_calls)].ok)

\* C18 witness: the atlas filled up: two glyphs are cached and drawn, the
\* insert of a third failed.
AtlasFullReached ==
    /\ font_crashed
    /\ Cardinality(DOMAIN cache) = 2
    /\ Len(insert_calls) = 3
    /\ Len(text_batch) >= 2

=============================================================================
